---- MODULE Spec2Model ----
(***************************************************************************)
(* Model of src/gui.py: the Tkinter front-end of the crossword solver.     *)
(* The interactive (main) thread owns the widgets and drains the queue of  *)
(* callbacks registered with root.after(0, ...); each _solve spawns one    *)
(* worker thread running _solve_in_thread, whose every statement is one    *)
(* step that interleaves with the main thread and with the user's edits.   *)
(***************************************************************************)
EXTENDS Integers, Sequences, FiniteSets, TLC

VARIABLES
    structure_path,   \* tk.StringVar, gui.py:21
    words_path,       \* tk.StringVar, gui.py:22
    output_path,      \* tk.StringVar, gui.py:23
    status_var,       \* tk.StringVar, gui.py:24
    solve_button,     \* state of the Solve button, gui.py:55
    output,           \* contents of the output Text widget, gui.py:64
    dialogs,          \* message boxes shown so far, in order, gui.py:166-170
    afterQueue,       \* callbacks registered by root.after(0, ...), not yet run
    workers,          \* the threads started by _solve, by session number
    nSessions,        \* number of calls of _solve so far
    posted,           \* history: the callbacks registered, in order
    applied           \* history: the callbacks run, in order

vars == <<structure_path, words_path, output_path, status_var, solve_button,
          output, dialogs, afterQueue, workers, nSessions, posted, applied>>

\* ------------------------------------------------------------------ bounds

\* Number of calls of _solve the model follows.
MaxSessions == 2

\* Number of cells of the largest puzzles the formatter is followed on.
MaxCells == 4

\* Number of calls of _solve followed when _solve is also called directly.
MaxDirectSessions == 2

\* --------------------------------------------------------------- constants

DEFAULT_STRUCTURE == "data/structure0.txt"
DEFAULT_WORDS == "data/words0.txt"

NORMAL == "normal"
DISABLED == "disabled"

Idle == "Idle"
Solving == "Solving..."
Solved == "Solved"
NoSolution == "No solution found"
Error == "Error"

Terminal == {Solved, NoSolution, Error}

\* Values the user can put into the three entry fields.
StructurePaths == {DEFAULT_STRUCTURE, "missing.txt"}
WordsPaths == {DEFAULT_WORDS, "words1.txt"}
OutputPaths == {"", "out.png"}

None == "None"
NoText == <<>>

\* ------------------------------------------------- the adapter's data

\* A puzzle model as the GUI reads it: creator.crossword.height, .width and
\* .structure[i][j] (TRUE for a cell of the puzzle, FALSE for a blocked one).
Rows(p) == 0 .. (p.height - 1)
Cols(p) == 0 .. (p.width - 1)

OpenCells(p) == {c \in Rows(p) \X Cols(p) : p.structure[c[1]][c[2]]}

\* creator.letter_grid(assignment): the letter of each cell, None where the
\* assignment gives none.  The assignment is a letter mapping keyed by cell.
letter_grid(p, assignment) ==
    [i \in Rows(p) |-> [j \in Cols(p) |->
        IF <<i, j>> \in DOMAIN assignment THEN assignment[<<i, j>>] ELSE None]]

\* The puzzles and assignments the adapter hands out in the session model.
SamplePuzzle ==
    [height |-> 2, width |-> 2,
     structure |-> [i \in 0 .. 1 |-> [j \in 0 .. 1 |-> ~(i = 0 /\ j = 1)]]]

SamplePuzzles == {SamplePuzzle}

SampleAssignments(p) ==
    {[c \in OpenCells(p) |-> "A"], [c \in {<<0, 0>>} |-> "B"]}

\* ------------------------------------------------------ _format_assignment

\* The letter taken as it is, without the "or".
OrBlank_Raw(v) == v

\* letters[i][j] or " "
OrBlank(v) == IF v = None \/ v = "" THEN " " ELSE v

\* One cell of the grid, gui.py:147-150.
CellChar(p, letters, i, j) ==
    IF p.structure[i][j] THEN OrBlank(letters[i][j]) ELSE "#"

\* "".join(row_chars) for row i, gui.py:145-151.
RowChars(p, letters, i) ==
    [k \in 1 .. p.width |-> CellChar(p, letters, i, k - 1)]

RECURSIVE JoinLines_Concat(_)
\* The rows joined with "" instead of "\n".
JoinLines_Concat(lines) ==
    IF Len(lines) = 0 THEN NoText
    ELSE lines[1] \o JoinLines_Concat(Tail(lines))

RECURSIVE JoinLines(_)
\* "\n".join(lines), gui.py:152; a text is a sequence of characters.
JoinLines(lines) ==
    IF Len(lines) = 0 THEN NoText
    ELSE IF Len(lines) = 1 THEN lines[1]
    ELSE lines[1] \o <<"\n">> \o JoinLines(Tail(lines))

_format_assignment(p, assignment) ==
    LET letters == letter_grid(p, assignment)
        lines == [k \in 1 .. p.height |-> RowChars(p, letters, k - 1)]
    IN  JoinLines(lines)

\* ------------------------------------------------------------- the bridge

\* A callback registered with root.after(0, ...): what it does (op), its
\* argument (arg, param: a status or a message and what the message names;
\* text: a text for the output box) and the session that registered it.
Entry(op, arg, param, text, s) ==
    [op |-> op, arg |-> arg, param |-> param, text |-> text, sid |-> s]

_set_output(text, s) == Entry("output", "", "", text, s)

_clear_output(s) == _set_output(NoText, s)

_notify_info(message, param, s) == Entry("info", message, param, NoText, s)

_notify_error(message, param, s) == Entry("error", message, param, NoText, s)

_set_status(text, s) == Entry("status", text, "", NoText, s)

_enable_button(s) == Entry("enable", "", "", NoText, s)

\* A registration that puts the callback before the ones that wait.
after_Front(e) ==
    /\ afterQueue' = <<e>> \o afterQueue
    /\ posted' = Append(posted, e)

\* root.after(0, callback): callbacks run in the order of registration.
after(e) ==
    /\ afterQueue' = Append(afterQueue, e)
    /\ posted' = Append(posted, e)

\* The messages of the dialogs.
MsgSolveError == "Error while solving: "
MsgNoSolution == "No solution could be generated for the chosen files."
MsgSaved == "Image saved to "
MsgPillow == "Pillow is required to save an image. Install it with 'pip install pillow'."
MsgSaveError == "Could not save image: "

\* ------------------------------------------------------------ the threads

Sessions == 1 .. nSessions

\* The locals of a thread before its first statement: the two paths read at
\* gui.py:106, crossword/creator, assignment, grid_text, the exception caught,
\* and the three values of output_path read at gui.py:127, 129 and 130.
\* History: startStatus, the status on screen when _solve started the thread,
\* and path, the way the thread went through _solve_in_thread.
NoWorker ==
    [pc |-> "none", structure |-> "", words |-> "", puzzle |-> SamplePuzzle,
     assignment |-> <<>>, grid_text |-> NoText, exc |-> "",
     tested |-> "", saved |-> "", named |-> "", startStatus |-> "", path |-> ""]

\* The statements of _solve_in_thread a thread can be at; "done" after a
\* return, "crashed" after an exception no handler of the thread caught.
Finished == {"done", "crashed"}

Alive(s) == workers[s].pc \notin Finished

AliveWorkers == {s \in Sessions : Alive(s)}

Goto(s, pc) == workers' = [workers EXCEPT ![s].pc = pc]

\* The thread ends: its locals are gone, the way it went is remembered.
End(s, pc, path) ==
    workers' = [workers EXCEPT
                  ![s] = [NoWorker EXCEPT !.pc = pc, !.path = path,
                                          !.startStatus = workers[s].startStatus]]

\* The ways through _solve_in_thread.
Paths ==
    {"construct_raised", "solve_raised", "no_solution", "render_raised",
     "no_export", "saved", "import_error", "save_error"}

\* A session is settled when its thread has ended and none of its callbacks
\* is waiting; the histories keep the sessions that are not settled and the
\* latest one.
Settled(s) ==
    /\ workers[s].pc \in Finished
    /\ \A k \in DOMAIN afterQueue : afterQueue[k].sid # s

Kept(e) == ~Settled(e.sid)

Forget(log) == SelectSeq(log, Kept)

Forgotten == [NoWorker EXCEPT !.pc = "done"]

Init ==
    /\ structure_path = DEFAULT_STRUCTURE
    /\ words_path = DEFAULT_WORDS
    /\ output_path = ""
    /\ status_var = Idle
    /\ solve_button = NORMAL
    /\ output = NoText
    /\ dialogs = <<>>
    /\ afterQueue = <<>>
    /\ workers = <<>>
    /\ nSessions = 0
    /\ posted = <<>>
    /\ applied = <<>>

\* ------------------------------------------------------ the user's edits

\* The structure entry, or _choose_structure with a chosen path.
_choose_structure ==
    /\ \E path \in StructurePaths \ {structure_path} : structure_path' = path
    /\ UNCHANGED <<words_path, output_path, status_var, solve_button, output,
                   dialogs, afterQueue, workers, nSessions, posted, applied>>

_choose_words ==
    /\ \E path \in WordsPaths \ {words_path} : words_path' = path
    /\ UNCHANGED <<structure_path, output_path, status_var, solve_button, output,
                   dialogs, afterQueue, workers, nSessions, posted, applied>>

_choose_output ==
    /\ \E path \in OutputPaths \ {output_path} : output_path' = path
    /\ UNCHANGED <<structure_path, words_path, status_var, solve_button, output,
                   dialogs, afterQueue, workers, nSessions, posted, applied>>

\* ------------------------------------------------------------------ _solve

\* _solve without gui.py:100: the button is left as it is.
ButtonAfterSolve_Kept == solve_button

\* The state _solve leaves the button in, gui.py:100.
ButtonAfterSolve == DISABLED

\* The body of _solve, run on the interactive thread: the status is handed to
\* the bridge, the button is disabled at once, the thread is started.
_solve ==
    LET s == nSessions + 1 IN
    /\ nSessions' = s
    /\ afterQueue' = Append(afterQueue, _set_status(Solving, s))
    /\ solve_button' = ButtonAfterSolve
    /\ workers' = Append([k \in DOMAIN workers |->
                             IF Settled(k) THEN Forgotten ELSE workers[k]],
                         [NoWorker EXCEPT !.pc = "read_structure",
                                          !.startStatus = status_var])
    /\ posted' = Append(Forget(posted), _set_status(Solving, s))
    /\ applied' = Forget(applied)
    /\ dialogs' = Forget(dialogs)
    /\ UNCHANGED <<structure_path, words_path, output_path, status_var, output>>

\* A click on the Solve button: Tk runs the command of an enabled button only.
ClickSolve ==
    /\ solve_button = NORMAL
    /\ nSessions < MaxSessions
    /\ _solve

\* _solve called directly, not through the button.
CallSolve ==
    /\ nSessions < MaxDirectSessions
    /\ _solve

\* --------------------------------------------------------- _solve_in_thread

\* What a step of a thread leaves alone: the widgets; and the bridge too, for
\* a step that registers no callback.
Widgets == <<structure_path, words_path, output_path, status_var, solve_button,
             output, dialogs, nSessions, applied>>

Bridge == <<afterQueue, posted>>

\* How the adapter's calls can end.  Crossword(...) and CrosswordCreator(...)
\* return a puzzle model or raise; solve() returns an assignment or None, or
\* raises; letter_grid returns or raises; save returns, or raises ImportError
\* or another exception.
ConstructErrors == {"FileNotFoundError"}
SolveErrors == {"RuntimeError"}
RenderErrors == {"IndexError"}
SaveErrors == {"ImportError", "OSError"}

\* self.structure_path.get(), gui.py:106.
WReadStructure(s) ==
    /\ workers[s].pc = "read_structure"
    /\ workers' = [workers EXCEPT ![s].structure = structure_path,
                                  ![s].pc = "read_words"]
    /\ UNCHANGED <<Widgets, Bridge>>

\* self.words_path.get(), gui.py:106.
WReadWords(s) ==
    /\ workers[s].pc = "read_words"
    /\ workers' = [workers EXCEPT ![s].words = words_path, ![s].pc = "construct"]
    /\ UNCHANGED <<Widgets, Bridge>>

\* Crossword(...) and CrosswordCreator(crossword), gui.py:106-107.
WConstruct(s) ==
    /\ workers[s].pc = "construct"
    /\ \/ \E p \in SamplePuzzles :
            workers' = [workers EXCEPT ![s].puzzle = p, ![s].pc = "solve"]
       \/ \E x \in ConstructErrors :
            workers' = [workers EXCEPT ![s].exc = x, ![s].pc = "except_notify",
                                       ![s].path = "construct_raised"]
    /\ UNCHANGED <<Widgets, Bridge>>

\* assignment = creator.solve(), gui.py:108, and the test of gui.py:115.
WSolve(s) ==
    /\ workers[s].pc = "solve"
    /\ \/ \E a \in SampleAssignments(workers[s].puzzle) :
            workers' = [workers EXCEPT ![s].assignment = a, ![s].pc = "format"]
       \/ workers' = [workers EXCEPT ![s].pc = "nosolution_status",
                                     ![s].path = "no_solution"]
       \/ \E x \in SolveErrors :
            workers' = [workers EXCEPT ![s].exc = x, ![s].pc = "except_notify",
                                       ![s].path = "solve_raised"]
    /\ UNCHANGED <<Widgets, Bridge>>

\* gui.py:110.
WExceptNotify(s) ==
    /\ workers[s].pc = "except_notify"
    /\ after(_notify_error(MsgSolveError, workers[s].exc, s))
    /\ Goto(s, "except_status")
    /\ UNCHANGED Widgets

\* gui.py:111.
WExceptStatus(s) ==
    /\ workers[s].pc = "except_status"
    /\ after(_set_status(Error, s))
    /\ Goto(s, "except_enable")
    /\ UNCHANGED Widgets

\* gui.py:112-113.
WExceptEnable(s) ==
    /\ workers[s].pc = "except_enable"
    /\ after(_enable_button(s))
    /\ End(s, "done", workers[s].path)
    /\ UNCHANGED Widgets

\* The no-solution path re-enabling the button first, the status left out.
WNoSolutionStatus_Enable(s) ==
    /\ workers[s].pc = "nosolution_status"
    /\ after(_enable_button(s))
    /\ Goto(s, "nosolution_notify")
    /\ UNCHANGED Widgets

\* gui.py:116.
WNoSolutionStatus(s) ==
    /\ workers[s].pc = "nosolution_status"
    /\ after(_set_status(NoSolution, s))
    /\ Goto(s, "nosolution_notify")
    /\ UNCHANGED Widgets

\* gui.py:117.
WNoSolutionNotify(s) ==
    /\ workers[s].pc = "nosolution_notify"
    /\ after(_notify_info(MsgNoSolution, "", s))
    /\ Goto(s, "nosolution_clear")
    /\ UNCHANGED Widgets

\* The no-solution path without gui.py:118.
WNoSolutionClear_Skipped(s) ==
    /\ workers[s].pc = "nosolution_clear"
    /\ Goto(s, "nosolution_enable")
    /\ UNCHANGED <<Widgets, Bridge>>

\* gui.py:118.
WNoSolutionClear(s) ==
    /\ workers[s].pc = "nosolution_clear"
    /\ after(_clear_output(s))
    /\ Goto(s, "nosolution_enable")
    /\ UNCHANGED Widgets

\* gui.py:119-120.
WNoSolutionEnable(s) ==
    /\ workers[s].pc = "nosolution_enable"
    /\ after(_enable_button(s))
    /\ End(s, "done", workers[s].path)
    /\ UNCHANGED Widgets

\* grid_text = self._format_assignment(creator, assignment), gui.py:123.  The
\* call stands outside every try: when letter_grid raises, the thread ends.
WFormat(s) ==
    /\ workers[s].pc = "format"
    /\ \/ workers' = [workers EXCEPT
                        ![s].grid_text = _format_assignment(workers[s].puzzle,
                                                            workers[s].assignment),
                        ![s].pc = "set_output"]
       \/ \E x \in RenderErrors :
            End(s, "crashed", "render_raised")
    /\ UNCHANGED <<Widgets, Bridge>>

\* gui.py:124 and gui.py:125 the wrong way round: the status goes first.
WSetOutput_StatusFirst(s) ==
    /\ workers[s].pc = "set_output"
    /\ after(_set_status(Solved, s))
    /\ Goto(s, "set_solved")
    /\ UNCHANGED Widgets

\* The thread writing the output box itself instead of gui.py:124.
WSetOutput_Direct(s) ==
    /\ workers[s].pc = "set_output"
    /\ output' = workers[s].grid_text
    /\ Goto(s, "set_solved")
    /\ UNCHANGED <<structure_path, words_path, output_path, status_var,
                   solve_button, dialogs, nSessions, applied, Bridge>>

\* gui.py:124.
WSetOutput(s) ==
    /\ workers[s].pc = "set_output"
    /\ after(_set_output(workers[s].grid_text, s))
    /\ Goto(s, "set_solved")
    /\ UNCHANGED Widgets

\* _solve_in_thread without gui.py:125.
WSetSolved_Skipped(s) ==
    /\ workers[s].pc = "set_solved"
    /\ Goto(s, "test_output_path")
    /\ UNCHANGED <<Widgets, Bridge>>

\* gui.py:125.
WSetSolved(s) ==
    /\ workers[s].pc = "set_solved"
    /\ after(_set_status(Solved, s))
    /\ Goto(s, "test_output_path")
    /\ UNCHANGED Widgets

\* if self.output_path.get():, gui.py:127.
WTestOutputPath(s) ==
    /\ workers[s].pc = "test_output_path"
    /\ workers' = [workers EXCEPT
                     ![s].tested = output_path,
                     ![s].path = IF output_path # "" THEN "" ELSE "no_export",
                     ![s].pc = IF output_path # "" THEN "save" ELSE "enable"]
    /\ UNCHANGED <<Widgets, Bridge>>

\* creator.save(assignment, self.output_path.get()), gui.py:129, and the
\* except clauses of gui.py:131 and gui.py:135.
WSave(s) ==
    /\ workers[s].pc = "save"
    /\ \/ workers' = [workers EXCEPT ![s].saved = output_path,
                                     ![s].path = "saved",
                                     ![s].pc = "notify_saved"]
       \/ \E x \in SaveErrors :
            workers' = [workers EXCEPT
                          ![s].saved = output_path, ![s].exc = x,
                          ![s].path = IF x = "ImportError" THEN "import_error"
                                      ELSE "save_error",
                          ![s].pc = IF x = "ImportError" THEN "notify_pillow"
                                    ELSE "notify_save_error"]
    /\ UNCHANGED <<Widgets, Bridge>>

\* gui.py:130.
WNotifySaved(s) ==
    /\ workers[s].pc = "notify_saved"
    /\ after(_notify_info(MsgSaved, output_path, s))
    /\ workers' = [workers EXCEPT ![s].named = output_path, ![s].pc = "enable"]
    /\ UNCHANGED Widgets

\* The ImportError handler taking the failed save for a failed solve.
WNotifyPillow_Error(s) ==
    /\ workers[s].pc = "notify_pillow"
    /\ after(_set_status(Error, s))
    /\ Goto(s, "enable")
    /\ UNCHANGED Widgets

\* gui.py:132-134.
WNotifyPillow(s) ==
    /\ workers[s].pc = "notify_pillow"
    /\ after(_notify_error(MsgPillow, "", s))
    /\ Goto(s, "enable")
    /\ UNCHANGED Widgets

\* gui.py:136.
WNotifySaveError(s) ==
    /\ workers[s].pc = "notify_save_error"
    /\ after(_notify_error(MsgSaveError, workers[s].exc, s))
    /\ Goto(s, "enable")
    /\ UNCHANGED Widgets

\* gui.py:138.
WEnable(s) ==
    /\ workers[s].pc = "enable"
    /\ after(_enable_button(s))
    /\ End(s, "done", workers[s].path)
    /\ UNCHANGED Widgets

\* ------------------------------------------------- the interactive thread

\* The event loop takes the oldest callback off the queue and runs it.
Take(op) ==
    /\ afterQueue # <<>>
    /\ Head(afterQueue).op = op
    /\ afterQueue' = Tail(afterQueue)
    /\ applied' = Append(applied, Head(afterQueue))

\* The posted re-enable configuring the wrong state.
ButtonAfterEnable_Disabled == DISABLED

\* The state the posted re-enable leaves the button in, gui.py:176.
ButtonAfterEnable == NORMAL

\* self.status_var.set(text), registered at gui.py:173.
RunSetStatus ==
    /\ Take("status")
    /\ status_var' = Head(afterQueue).arg
    /\ UNCHANGED <<structure_path, words_path, output_path, solve_button, output,
                   dialogs, workers, nSessions, posted>>

\* gui.py:157-161.
_write_output ==
    /\ Take("output")
    /\ output' = Head(afterQueue).text
    /\ UNCHANGED <<structure_path, words_path, output_path, status_var,
                   solve_button, dialogs, workers, nSessions, posted>>

Dialog(e) == [kind |-> e.op, message |-> e.arg, param |-> e.param, sid |-> e.sid]

\* messagebox.showinfo, registered at gui.py:167.
RunShowInfo ==
    /\ Take("info")
    /\ dialogs' = Append(dialogs, Dialog(Head(afterQueue)))
    /\ UNCHANGED <<structure_path, words_path, output_path, status_var,
                   solve_button, output, workers, nSessions, posted>>

\* messagebox.showerror, registered at gui.py:170.
RunShowError ==
    /\ Take("error")
    /\ dialogs' = Append(dialogs, Dialog(Head(afterQueue)))
    /\ UNCHANGED <<structure_path, words_path, output_path, status_var,
                   solve_button, output, workers, nSessions, posted>>

\* self.solve_button.config(state=tk.NORMAL), registered at gui.py:176.
RunEnable ==
    /\ Take("enable")
    /\ solve_button' = ButtonAfterEnable
    /\ UNCHANGED <<structure_path, words_path, output_path, status_var, output,
                   dialogs, workers, nSessions, posted>>

\* ------------------------------------------------------- specifications

Worker ==
    \/ \E s \in Sessions : WReadStructure(s)
    \/ \E s \in Sessions : WReadWords(s)
    \/ \E s \in Sessions : WConstruct(s)
    \/ \E s \in Sessions : WSolve(s)
    \/ \E s \in Sessions : WExceptNotify(s)
    \/ \E s \in Sessions : WExceptStatus(s)
    \/ \E s \in Sessions : WExceptEnable(s)
    \/ \E s \in Sessions : WNoSolutionStatus(s)
    \/ \E s \in Sessions : WNoSolutionNotify(s)
    \/ \E s \in Sessions : WNoSolutionClear(s)
    \/ \E s \in Sessions : WNoSolutionEnable(s)
    \/ \E s \in Sessions : WFormat(s)
    \/ \E s \in Sessions : WSetOutput(s)
    \/ \E s \in Sessions : WSetSolved(s)
    \/ \E s \in Sessions : WTestOutputPath(s)
    \/ \E s \in Sessions : WSave(s)
    \/ \E s \in Sessions : WNotifySaved(s)
    \/ \E s \in Sessions : WNotifyPillow(s)
    \/ \E s \in Sessions : WNotifySaveError(s)
    \/ \E s \in Sessions : WEnable(s)

EventLoop ==
    \/ RunSetStatus
    \/ _write_output
    \/ RunShowInfo
    \/ RunShowError
    \/ RunEnable

User ==
    \/ _choose_structure
    \/ _choose_words
    \/ _choose_output

\* The application as main() runs it: _solve is the command of the button.
Next ==
    \/ ClickSolve
    \/ User
    \/ EventLoop
    \/ Worker

Spec == Init /\ [][Next]_vars

\* The application with _solve called directly, whatever the button's state.
\* The user has chosen the output path before the first call and leaves the
\* three fields alone afterwards.
InitDirect ==
    /\ structure_path = DEFAULT_STRUCTURE
    /\ words_path = DEFAULT_WORDS
    /\ output_path \in OutputPaths
    /\ status_var = Idle
    /\ solve_button = NORMAL
    /\ output = NoText
    /\ dialogs = <<>>
    /\ afterQueue = <<>>
    /\ workers = <<>>
    /\ nSessions = 0
    /\ posted = <<>>
    /\ applied = <<>>

NextDirect ==
    \/ CallSolve
    \/ EventLoop
    \/ Worker

SpecDirect == InitDirect /\ [][NextDirect]_vars

\* The puzzles of at most MaxCells cells, with every pattern of blocked cells,
\* and for each the assignments: the letter mappings keyed by any of its cells.
Letters == {"A", "B"}

Dims == {d \in (1 .. MaxCells) \X (1 .. MaxCells) : d[1] * d[2] <= MaxCells}

BoundedPuzzles ==
    UNION {{[height |-> d[1], width |-> d[2], structure |-> st] :
               st \in [0 .. (d[1] - 1) -> [0 .. (d[2] - 1) -> BOOLEAN]]} :
           d \in Dims}

BoundedAssignments(p) ==
    UNION {[D -> Letters] : D \in SUBSET (Rows(p) \X Cols(p))}

\* The formatter alone: one thread has got a puzzle model and an assignment
\* from the adapter and stands before gui.py:123; it renders the grid and
\* registers it, and the event loop writes it to the output box.
InitFormat ==
    /\ structure_path = DEFAULT_STRUCTURE
    /\ words_path = DEFAULT_WORDS
    /\ output_path = ""
    /\ status_var = Solving
    /\ solve_button = DISABLED
    /\ output = NoText
    /\ dialogs = <<>>
    /\ afterQueue = <<>>
    /\ nSessions = 1
    /\ posted = <<_set_status(Solving, 1)>>
    /\ applied = <<_set_status(Solving, 1)>>
    /\ \E p \in BoundedPuzzles : \E a \in BoundedAssignments(p) :
          workers = <<[NoWorker EXCEPT !.pc = "format",
                                       !.structure = DEFAULT_STRUCTURE,
                                       !.words = DEFAULT_WORDS,
                                       !.puzzle = p, !.assignment = a,
                                       !.startStatus = Idle]>>

NextFormat ==
    \/ \E s \in Sessions : WFormat(s)
    \/ \E s \in Sessions : WSetOutput(s)
    \/ _write_output

SpecFormat == InitFormat /\ [][NextFormat]_vars

\* The application with the scheduling the liveness of a session rests on: the
\* event loop keeps running the callbacks that wait, and a thread that can
\* take a step takes it (each call of the adapter returns or raises).
FairSpec == Spec /\ WF_vars(EventLoop) /\ WF_vars(Worker)

\* ------------------------------------------------------------ the claims

\* What session s registered, and what of it has run, in order.
PostedBy(s) == SelectSeq(posted, LAMBDA e : e.sid = s)

AppliedOf(s) == SelectSeq(applied, LAMBDA e : e.sid = s)

DialogsOf(s) == SelectSeq(dialogs, LAMBDA d : d.sid = s)

IsTerminalStatus(e) == e.op = "status" /\ e.arg \in Terminal

IsEnable(e) == e.op = "enable"

\* A session whose thread has ended and whose history is still kept.
Ended(s) == workers[s].pc \in Finished /\ workers[s].path \in Paths

\* C1: a call of _solve made while the status on screen is "Solving..." has no
\* effect: no session, and so no thread, is ever started by such a call.
C1_NoStartWhileSolving ==
    \A s \in Sessions : workers[s].startStatus # Solving

\* C2: with _solve run by the button only, every call of _solve started one
\* thread, at most one thread is alive (the latest one), and the button is
\* enabled only when no thread is alive.
C2_OneWorkerAlive ==
    /\ Len(workers) = nSessions
    /\ Cardinality(AliveWorkers) <= 1
    /\ \A s \in Sessions : Alive(s) => s = nSessions
    /\ solve_button = NORMAL => AliveWorkers = {}

\* C2 witness: a second session's thread is alive after the first has ended.
C2_Witness ==
    /\ nSessions = 2
    /\ Alive(2)
    /\ ~Alive(1)

\* How many entries of a history satisfy a test.
Count(log, Test(_)) == Len(SelectSeq(log, Test))

\* C3: every session whose thread has ended and whose callbacks have all run
\* has had its terminal status and its re-enable applied.
C3_EndedSessionPublished ==
    \A s \in Sessions :
        Ended(s) /\ Settled(s) =>
            /\ Count(AppliedOf(s), IsTerminalStatus) >= 1
            /\ Count(AppliedOf(s), IsEnable) >= 1

\* C3, as a temporal formula for FairSpec: once _solve has disabled the
\* button, a terminal status is on screen with the button enabled later on.
C3_EventuallyPublished ==
    (solve_button = DISABLED) ~> (solve_button = NORMAL /\ status_var \in Terminal)

\* C4: a thread that has ended has registered exactly one terminal status
\* (Solved, No solution found or Error).
C4_ExactlyOneTerminal ==
    \A s \in Sessions :
        Ended(s) => Count(PostedBy(s), IsTerminalStatus) = 1

C6_EnabledIffNotSolving ==
    (solve_button = NORMAL) <=> (status_var # Solving)

\* The "Solving..." status of the latest session is registered and has not run.
SolvingPending ==
    \E k \in DOMAIN afterQueue :
        afterQueue[k] = _set_status(Solving, nSessions)

\* The terminal status of the latest session has run and its re-enable has not.
EnablePendingAfterTerminal ==
    /\ nSessions >= 1
    /\ Count(AppliedOf(nSessions), IsTerminalStatus) = 1
    /\ Count(AppliedOf(nSessions), IsEnable) = 0

\* C6 (amended): while the status on screen is "Solving..." the button is
\* disabled, and the button is disabled with another status on screen only
\* between _solve and the run of its "Solving..." status, or between the run of
\* a terminal status and the run of the re-enable that follows it.
C6_SolvingImpliesDisabled ==
    /\ status_var = Solving => solve_button = DISABLED
    /\ solve_button = DISABLED /\ status_var # Solving =>
          SolvingPending \/ EnablePendingAfterTerminal

\* C6 witness: a terminal status is on screen and the button is still disabled.
C6_Witness ==
    /\ status_var = Solved
    /\ solve_button = DISABLED
    /\ EnablePendingAfterTerminal

\* C7 (as claimed): the status on screen changes only from Idle to
\* "Solving..." and from "Solving..." to Solved, No solution found or Error.
C7_OnlyIdleToSolving ==
    [][status_var' # status_var =>
          \/ status_var = Idle /\ status_var' = Solving
          \/ status_var = Solving /\ status_var' \in Terminal]_vars

\* C7 (amended): the status starts as Idle; it changes to "Solving..." from
\* Idle and from each of Solved, No solution found and Error (a later _solve),
\* and from "Solving..." to one of Solved, No solution found and Error; it
\* changes in no other way.
C7_Transitions ==
    /\ status_var = Idle
    /\ [][status_var' # status_var =>
            \/ status_var \in {Idle} \cup Terminal /\ status_var' = Solving
            \/ status_var = Solving /\ status_var' \in Terminal]_vars

\* C7 witness: the status of a second session is on screen.
C7_Witness ==
    /\ nSessions = 2
    /\ status_var = Solving
    /\ Count(AppliedOf(2), LAMBDA e : e = _set_status(Solving, 2)) = 1

IsOutput(e) == e.op = "output"

\* C8: while the status on screen is "Solving...", No solution found or Error
\* and the latest session has registered no text for the output box, the
\* output box holds no grid: the grid of an earlier session is gone.
C8_GridOnlyWhenSolved ==
    /\ status_var \in {Solving, NoSolution, Error}
    /\ Count(PostedBy(nSessions), IsOutput) = 0
    => output = NoText

\* C9: no thread ends with an exception that none of its handlers caught.
C9_NoUncaughtFailure ==
    \A s \in Sessions : workers[s].pc # "crashed"

\* The message of the dialog a failed save leads to.
SaveFailureMessage(path) ==
    IF path = "import_error" THEN MsgPillow ELSE MsgSaveError

\* C10: a session whose save failed registers, after "Solving...", its grid,
\* the status Solved, one error dialog and the re-enable, and nothing else;
\* once these have run the status on screen is Solved, the output box holds
\* the grid and the session has shown that one error dialog, whose message for
\* ImportError is not the message for the other exceptions.
C10_SaveFailureKeepsSolved ==
    /\ MsgPillow # MsgSaveError
    /\ \A s \in Sessions :
        workers[s].pc = "done" /\ workers[s].path \in {"import_error", "save_error"} =>
            LET mine == PostedBy(s) IN
            /\ Len(mine) = 5
            /\ mine[1] = _set_status(Solving, s)
            /\ mine[2].op = "output" /\ mine[2].text # NoText
            /\ mine[3] = _set_status(Solved, s)
            /\ mine[4].op = "error"
            /\ mine[4].arg = SaveFailureMessage(workers[s].path)
            /\ mine[5] = _enable_button(s)
            /\ Settled(s) =>
                  /\ status_var = Solved
                  /\ output = mine[2].text
                  /\ DialogsOf(s) = <<Dialog(mine[4])>>

\* C10 witness: a session whose save raised ImportError has had all its
\* callbacks run.
C10_Witness ==
    \E s \in Sessions :
        /\ workers[s].pc = "done"
        /\ workers[s].path = "import_error"
        /\ Settled(s)
        /\ Len(DialogsOf(s)) = 1

\* C11: a session in which solve() returned None registers, after
\* "Solving...", the status No solution found, one info dialog, an empty text
\* for the output box and the re-enable, and nothing else; once these have run
\* the status on screen is No solution found, the output box is empty, the
\* session has shown that one info dialog and the button is enabled.
C11_NoSolutionOutcome ==
    \A s \in Sessions :
        workers[s].pc = "done" /\ workers[s].path = "no_solution" =>
            /\ PostedBy(s) = <<_set_status(Solving, s), _set_status(NoSolution, s),
                               _notify_info(MsgNoSolution, "", s),
                               _set_output(NoText, s), _enable_button(s)>>
            /\ Settled(s) =>
                  /\ status_var = NoSolution
                  /\ output = NoText
                  /\ DialogsOf(s) = <<Dialog(_notify_info(MsgNoSolution, "", s))>>
                  /\ solve_button = NORMAL

\* C11 witness: a second session has ended without a solution and all its
\* callbacks have run.
C11_Witness ==
    /\ nSessions = 2
    /\ workers[2].pc = "done"
    /\ workers[2].path = "no_solution"
    /\ Settled(2)
    /\ output = NoText

\* C12: the callbacks that have run followed by the ones that wait are the
\* callbacks registered, in the order of registration; the first callback of a
\* session to run is the "Solving..." status _solve registered.
C12_AppliedInPostedOrder ==
    /\ applied \o afterQueue = posted
    /\ \A s \in Sessions :
          AppliedOf(s) # <<>> => AppliedOf(s)[1] = _set_status(Solving, s)

\* C12 witness: callbacks of the thread have run after the status of _solve,
\* and others still wait.
C12_Witness ==
    \E s \in Sessions :
        /\ Len(AppliedOf(s)) >= 3
        /\ afterQueue # <<>>

\* What the interactive thread shows.
Shown == <<status_var, solve_button, output, dialogs>>

\* C13: no step of a thread changes the status, the button, the output box or
\* the dialogs; and they change only in _solve or when a callback runs.
C13_WorkerOnlyPosts ==
    [][/\ Worker => UNCHANGED Shown
       /\ Shown' # Shown => nSessions' # nSessions \/ Len(applied') = Len(applied) + 1
      ]_vars

\* C13 witness: the grid a thread registered is in the output box.
C13_Witness ==
    \E s \in Sessions :
        /\ Count(AppliedOf(s), IsOutput) = 1
        /\ output # NoText
        /\ Alive(s)

\* A callback the thread of a session registered (not the status of _solve).
ByThread(e) == ~(e.op = "status" /\ e.arg = Solving)

\* The statements that read one of the StringVars (gui.py:106, 127, 129, 130).
ReadsField(s) ==
    \/ WReadStructure(s)
    \/ WReadWords(s)
    \/ WTestOutputPath(s)
    \/ WSave(s)
    \/ WNotifySaved(s)

\* C14: a thread that has registered a callback reads none of the StringVars
\* afterwards.
C14_NoReadAfterHandOff ==
    [][\A s \in Sessions :
          ReadsField(s) => Count(PostedBy(s), ByThread) = 0]_vars

\* The threads that hold a rendered grid: past gui.py:123, before gui.py:127.
Rendered == {s \in Sessions : workers[s].pc \in {"set_output", "set_solved"}}

\* The place of cell (i, j) in a text of rows of w characters.
Place(w, i, j) == i * (w + 1) + j + 1

\* The character the formatter is to give cell (i, j).
Expected(p, a, i, j) ==
    IF ~p.structure[i][j] THEN "#"
    ELSE IF <<i, j>> \in DOMAIN a THEN a[<<i, j>>]
    ELSE " "

\* C15: in the rendered grid the character of a blocked cell is "#" whatever
\* the assignment gives it, that of another cell is its assigned letter, or " "
\* when it has none; the output box gets that text.
C15_CellCharacters ==
    /\ \A s \in Rendered :
        LET p == workers[s].puzzle
            a == workers[s].assignment
            t == workers[s].grid_text
        IN  \A i \in Rows(p) : \A j \in Cols(p) :
                /\ Place(p.width, i, j) <= Len(t)
                /\ t[Place(p.width, i, j)] = Expected(p, a, i, j)
    /\ \A s \in Sessions :
          workers[s].pc = "set_solved" /\ Count(AppliedOf(s), IsOutput) = 1 =>
              output = workers[s].grid_text

\* C15 witness: a grid is rendered for a puzzle with a blocked cell that the
\* assignment gives a letter, a cell with a letter and a cell without.
C15_Witness ==
    \E s \in Rendered :
        LET p == workers[s].puzzle
            a == workers[s].assignment
            cells == Rows(p) \X Cols(p)
        IN  /\ \E c \in cells \ OpenCells(p) : c \in DOMAIN a
            /\ \E c \in OpenCells(p) : c \in DOMAIN a
            /\ \E c \in OpenCells(p) : c \notin DOMAIN a

\* C16: the rendered grid of a puzzle of height h and width w is h rows of w
\* characters each, with one "\n" between two rows and none elsewhere.
C16_LinesAndLengths ==
    \A s \in Rendered :
        LET h == workers[s].puzzle.height
            w == workers[s].puzzle.width
            t == workers[s].grid_text
        IN  /\ Len(t) = h * w + (h - 1)
            /\ \A k \in 1 .. Len(t) : (t[k] = "\n") <=> (k % (w + 1) = 0)

\* C16 witness: a grid of two rows of two characters is rendered.
C16_Witness ==
    \E s \in Rendered :
        /\ workers[s].puzzle.height = 2
        /\ workers[s].puzzle.width = 2
        /\ Len(workers[s].grid_text) = 5

\* The threads for which creator.save has been called (gui.py:129).
SaveCalled ==
    {s \in Sessions : workers[s].path \in {"saved", "import_error", "save_error"}
                      /\ Alive(s)}

IsSavedDialog(e) == e.op = "info" /\ e.arg = MsgSaved

\* C17: save is called only with a path that is not empty and never on the
\* paths of an exception or of no solution, and "Image saved to ..." is
\* registered only by a session whose save returned.
C17_SaveOnlyWithPath ==
    /\ \A s \in SaveCalled : workers[s].saved # ""
    /\ \A s \in Sessions :
        /\ workers[s].path \in {"construct_raised", "solve_raised", "no_solution",
                                "render_raised", "no_export"} =>
              /\ workers[s].saved = ""
              /\ Count(PostedBy(s), IsSavedDialog) = 0
        /\ Count(PostedBy(s), IsSavedDialog) >= 1 =>
              /\ workers[s].path = "saved"
              /\ Count(PostedBy(s), IsSavedDialog) = 1

\* C18 (the part about the output path): the value of output_path tested at
\* gui.py:127, the one passed to save at gui.py:129 and the one named in the
\* dialog of gui.py:130 are the same.
C18_OneOutputPath ==
    \A s \in Sessions :
        /\ s \in SaveCalled => workers[s].saved = workers[s].tested
        /\ workers[s].pc = "enable" /\ workers[s].path = "saved" =>
              workers[s].named = workers[s].saved

\* C19: with _solve run by the button only, the callbacks that wait are those
\* of the latest session; while the button is enabled none waits and no thread
\* is alive, so none of an earlier session is left when _solve runs; and the
\* re-enable is the last callback a session registers.
C19_NothingPendingAtStart ==
    /\ \A k \in DOMAIN afterQueue : afterQueue[k].sid = nSessions
    /\ solve_button = NORMAL => afterQueue = <<>> /\ AliveWorkers = {}
    /\ \A s \in Sessions :
          Count(PostedBy(s), IsEnable) >= 1 =>
              /\ IsEnable(PostedBy(s)[Len(PostedBy(s))])
              /\ ~Alive(s)

\* C19 witness: a second session has just been started by the button: its
\* "Solving..." status is the one callback that waits.
C19_Witness ==
    /\ nSessions = 2
    /\ afterQueue = <<_set_status(Solving, 2)>>
    /\ workers[2].pc = "read_structure"

IsSolvedStatus(e) == e.op = "status" /\ e.arg = Solved

\* The texts session s registered for the output box.
OutputsOf(s) == SelectSeq(PostedBy(s), IsOutput)

\* C20: when the status Solved of the latest session is on screen, the output
\* box holds the one text that session registered, a grid; and while the
\* status on screen stays Solved the output box does not change.
C20_SolvedOverItsGrid ==
    /\ [](status_var = Solved /\ nSessions >= 1
             /\ Count(AppliedOf(nSessions), IsSolvedStatus) = 1 =>
                /\ Len(OutputsOf(nSessions)) = 1
                /\ output = OutputsOf(nSessions)[1].text
                /\ output # NoText)
    /\ [][status_var = Solved /\ status_var' = Solved => output' = output]_vars
    /\ [][\A s \in Sessions :
             WSetOutput(s) =>
                workers[s].grid_text = _format_assignment(workers[s].puzzle,
                                                          workers[s].assignment)]_vars

\* C20 witness: the status Solved of a second session is on screen.
C20_Witness ==
    /\ nSessions = 2
    /\ status_var = Solved
    /\ Count(AppliedOf(2), IsSolvedStatus) = 1

====
